---- MODULE Spec2Model ----
(***************************************************************************)
(* Model of session_index/search.py: the FTS5 query sanitizer              *)
(* (_escape_fts_query), the SessionSearch query methods (search, find,     *)
(* topics, recent, _get_topics) and the command dispatcher main().         *)
(*                                                                         *)
(* Text is a sequence of one-character strings.  Python indices are kept   *)
(* 0-based as in the source; Slice(s, a, b) is s[a:b].                     *)
(***************************************************************************)
EXTENDS Integers, Sequences, FiniteSets, TLC

VARIABLES
    esc,    \* the activation of _escape_fts_query: its locals and position
    store,  \* the store content read by the SessionSearch methods
    call,   \* the SessionSearch method call in progress and its return value
    cli     \* the activation of main(): arguments, connection, position

vars == <<esc, store, call, cli>>

----------------------------------------------------------------------------
(* Bounds of the model *)

\* longest raw query handed to _escape_fts_query
MaxLen == 5

----------------------------------------------------------------------------
(* Characters and Python string primitives *)

QUOTE == "\""
SPACE == " "
TAB == "\t"
LETTER == "a"

Alphabet == {LETTER, SPACE, TAB, QUOTE}

\* str.isspace() on one character
IsSpace(c) == c \in {SPACE, TAB}

\* s[a:b] for 0 <= a, b <= len(s)
Slice(s, a, b) == SubSeq(s, a + 1, b)

\* s.find('"', from): the 0-based index of the first quote at or after from, or -1
FindQuote(s, from) ==
    LET hits == {k \in from..(Len(s) - 1) : s[k + 1] = QUOTE}
    IN IF hits = {} THEN -1 ELSE CHOOSE k \in hits : \A h \in hits : k <= h

\* s.strip(): leading and trailing whitespace removed
Strip(s) ==
    LET keep == {k \in 1..Len(s) : ~IsSpace(s[k])}
    IN IF keep = {} THEN <<>>
       ELSE LET lo == CHOOSE k \in keep : \A h \in keep : k <= h
                hi == CHOOSE k \in keep : \A h \in keep : k >= h
            IN SubSeq(s, lo, hi)

\* " ".join(tokens)
RECURSIVE Join(_)
Join(tokens) ==
    IF tokens = <<>> THEN <<>>
    ELSE IF Len(tokens) = 1 THEN tokens[1]
    ELSE tokens[1] \o <<SPACE>> \o Join(Tail(tokens))

\* f'"{token}"'
Quoted(token) == <<QUOTE>> \o token \o <<QUOTE>>

\* all strings over Alphabet of length at most n
Strings(n) == UNION {[1..k -> Alphabet] : k \in 0..n}

----------------------------------------------------------------------------
(* _escape_fts_query, one action per branch of its loops *)

EscIdle == [pc |-> "idle", query |-> <<>>, chars |-> <<>>, i |-> 0, start |-> 0,
            tokens |-> <<>>, result |-> <<>>, pass |-> 0, first |-> <<>>]

EscEntry(q, pass, first) ==
    [pc |-> "entry", query |-> q, chars |-> <<>>, i |-> 0, start |-> 0,
     tokens |-> <<>>, result |-> <<>>, pass |-> pass, first |-> first]

\* lines 35-40: the empty / blank early return, else strip and start scanning
EscEnter ==
    /\ esc.pc = "entry"
    /\ IF esc.query = <<>> \/ Strip(esc.query) = <<>>
       THEN esc' = [esc EXCEPT !.pc = "done", !.result = <<>>]
       ELSE esc' = [esc EXCEPT !.pc = "loop", !.chars = Strip(esc.query),
                               !.i = 0, !.tokens = <<>>]
    /\ UNCHANGED <<store, call, cli>>

\* lines 44-46: skip one whitespace character
EscSkipWhitespace ==
    /\ esc.pc = "loop"
    /\ esc.i < Len(esc.chars)
    /\ IsSpace(esc.chars[esc.i + 1])
    /\ esc' = [esc EXCEPT !.i = esc.i + 1]
    /\ UNCHANGED <<store, call, cli>>

\* mutant: the already-quoted phrase is wrapped in a second pair of quotes
PhraseTokenRewrapped(chars, i, end) == Quoted(Slice(chars, i, end + 1))

\* the token appended at line 55
PhraseToken(chars, i, end) == Slice(chars, i, end + 1)

\* lines 49-50, 55-56: a quoted phrase with its closing quote is kept verbatim
EscQuotedPhrase ==
    /\ esc.pc = "loop"
    /\ esc.i < Len(esc.chars)
    /\ esc.chars[esc.i + 1] = QUOTE
    /\ LET end == FindQuote(esc.chars, esc.i + 1)
       IN /\ end # -1
          /\ esc' = [esc EXCEPT !.tokens = Append(@, PhraseToken(esc.chars, esc.i, end)),
                                !.i = end + 1]
    /\ UNCHANGED <<store, call, cli>>

\* mutant: the closing quote of the final token is forgotten
RestTokenUnclosed(chars, i) == Slice(chars, i, Len(chars))

\* the token appended at line 53
RestToken(chars, i) == Quoted(Slice(chars, i + 1, Len(chars)))

\* lines 49-54: an unterminated quote wraps the rest as one token and breaks
EscUnterminatedQuote ==
    /\ esc.pc = "loop"
    /\ esc.i < Len(esc.chars)
    /\ esc.chars[esc.i + 1] = QUOTE
    /\ FindQuote(esc.chars, esc.i + 1) = -1
    /\ esc' = [esc EXCEPT !.tokens = Append(@, RestToken(esc.chars, esc.i)),
                          !.pc = "join"]
    /\ UNCHANGED <<store, call, cli>>

\* lines 57-59: an unquoted token starts here
EscStartToken ==
    /\ esc.pc = "loop"
    /\ esc.i < Len(esc.chars)
    /\ ~IsSpace(esc.chars[esc.i + 1])
    /\ esc.chars[esc.i + 1] # QUOTE
    /\ esc' = [esc EXCEPT !.start = esc.i, !.pc = "collect"]
    /\ UNCHANGED <<store, call, cli>>

\* mutant: an unquoted token is not ended by a quote
InTokenPastQuote(chars, i) ==
    i < Len(chars) /\ ~IsSpace(chars[i + 1])

\* the condition of the inner while at line 60
InToken(chars, i) ==
    i < Len(chars) /\ ~IsSpace(chars[i + 1]) /\ chars[i + 1] # QUOTE

\* lines 60-61: one more character of the unquoted token
EscCollectChar ==
    /\ esc.pc = "collect"
    /\ InToken(esc.chars, esc.i)
    /\ esc' = [esc EXCEPT !.i = esc.i + 1]
    /\ UNCHANGED <<store, call, cli>>

\* the token appended at line 63
WordToken(chars, start, i) == Quoted(Slice(chars, start, i))

\* lines 62-63: the unquoted token ends and is wrapped in quotes
EscEndToken ==
    /\ esc.pc = "collect"
    /\ ~InToken(esc.chars, esc.i)
    /\ esc' = [esc EXCEPT !.tokens = Append(@, WordToken(esc.chars, esc.start, esc.i)),
                          !.pc = "loop"]
    /\ UNCHANGED <<store, call, cli>>

\* line 42: the outer while ends when i reaches len(chars)
EscLoopExit ==
    /\ esc.pc = "loop"
    /\ esc.i >= Len(esc.chars)
    /\ esc' = [esc EXCEPT !.pc = "join"]
    /\ UNCHANGED <<store, call, cli>>

\* line 65: return " ".join(tokens)
EscReturn ==
    /\ esc.pc = "join"
    /\ esc' = [esc EXCEPT !.pc = "done", !.result = Join(esc.tokens)]
    /\ UNCHANGED <<store, call, cli>>

\* the caller sanitizes the returned text again (second pass over the output)
EscAgain ==
    /\ esc.pc = "done"
    /\ esc.pass = 1
    /\ esc' = EscEntry(esc.result, 2, esc.result)
    /\ UNCHANGED <<store, call, cli>>

----------------------------------------------------------------------------
(* The store: SQL values, three-valued logic, LIKE, ORDER BY, LIMIT *)

\* an optional value is the empty set (Python None, SQL NULL) or {v}
None == {}
NULL == {}
Some(v) == {v}
Val(o) == CHOOSE v \in o : TRUE

\* SQL truth values
T == "T"
F == "F"
U == "U"

Bool3(b) == IF b THEN T ELSE F
Not3(x) == IF x = U THEN U ELSE IF x = T THEN F ELSE T
Or3(x, y) == IF x = T \/ y = T THEN T ELSE IF x = U \/ y = U THEN U ELSE F
And3(x, y) == IF x = F \/ y = F THEN F ELSE IF x = U \/ y = U THEN U ELSE T

\* LIKE folds ASCII case
Fold(c) == IF c = "A" THEN "a" ELSE IF c = "B" THEN "b" ELSE c

\* text LIKE pattern, both not NULL: % is any run of characters, _ any one
RECURSIVE LikeMatch(_, _)
LikeMatch(text, pattern) ==
    IF pattern = <<>> THEN text = <<>>
    ELSE IF Head(pattern) = "%"
         THEN LikeMatch(text, Tail(pattern))
              \/ (text # <<>> /\ LikeMatch(Tail(text), pattern))
    ELSE /\ text # <<>>
         /\ (Head(pattern) = "_" \/ Fold(Head(pattern)) = Fold(Head(text)))
         /\ LikeMatch(Tail(text), Tail(pattern))

\* column LIKE ? : NULL LIKE anything is NULL
Like(column, pattern) ==
    IF column = NULL THEN U ELSE Bool3(LikeMatch(Val(column), pattern))

\* the characters of a timestamp, in collating order
Digits == <<"0", "1", "2", "3", "4", "5", "6", "7", "8", "9">>
Code(c) == CHOOSE k \in 1..Len(Digits) : Digits[k] = c

\* text >= text as the store compares TEXT: character by character
RECURSIVE TextGE(_, _)
TextGE(x, y) ==
    IF y = <<>> THEN TRUE
    ELSE IF x = <<>> THEN FALSE
    ELSE IF Code(Head(x)) # Code(Head(y)) THEN Code(Head(x)) > Code(Head(y))
    ELSE TextGE(Tail(x), Tail(y))

\* the rows of a result set, and the pairs of them an ORDER BY compares
Range(rows) == {rows[k] : k \in 1..Len(rows)}
Pairs(rows) == Range(rows) \X Range(rows)

\* rs in the order of the relation before on rows: <<x, y>> \in before says x may
\* come ahead of y; rows of equal rank stay in table order
Sorted(rs, before) ==
    LET Precedes(j, k) ==
            \/ <<rs[j], rs[k]>> \in before /\ <<rs[k], rs[j]>> \notin before
            \/ <<rs[j], rs[k]>> \in before /\ <<rs[k], rs[j]>> \in before /\ j < k
        Rank == [k \in 1..Len(rs) |->
                    1 + Cardinality({j \in 1..Len(rs) : Precedes(j, k)})]
    IN CHOOSE sorted \in
          {[r \in 1..Len(rs) |-> rs[CHOOSE k \in 1..Len(rs) : rank[k] = r]] :
              rank \in {Rank}} : TRUE

\* ORDER BY: the rows, the order and the ranks are each evaluated once
OrderBy(rows, before) ==
    CHOOSE sorted \in {Sorted(rs, bf) : rs \in {rows}, bf \in {before}} : TRUE

\* LIMIT n: a negative n is no limit at all
Limit(rows, n) ==
    IF n < 0 \/ n >= Len(rows) THEN rows ELSE SubSeq(rows, 1, n)

\* [f(x) for x in seq], f a function on the elements; seq is evaluated once
Map(seq, f) ==
    CHOOSE out \in {[k \in 1..Len(xs) |-> g[xs[k]]] : xs \in {seq}, g \in {f}} : TRUE

----------------------------------------------------------------------------
(* SessionSearch._get_topics and SessionSearch.topics *)

\* LIMIT 10 of _get_topics
TopicCap == 10

TopicsOfSession(db, session_id) ==
    LET rows == SelectSeq(db.topics, LAMBDA t : t.session_id = session_id)
    IN OrderBy(rows, {p \in Pairs(rows) : p[1].captured_at <= p[2].captured_at})

CompactTopic(t) == [topic |-> t.topic, source |-> t.source]

\* mutant: the LIMIT 10 is left out
GetTopicsUncapped(db, session_id) ==
    Map(TopicsOfSession(db, session_id), [t \in Range(db.topics) |-> CompactTopic(t)])

\* lines 226-235: the first 10 topics by captured_at, topic and source only
GetTopics(db, session_id) ==
    Map(Limit(TopicsOfSession(db, session_id), TopicCap),
        [t \in Range(db.topics) |-> CompactTopic(t)])

TimelineTopic(t) ==
    [topic |-> t.topic, captured_at |-> t.captured_at,
     exchange_number |-> t.exchange_number, source |-> t.source]

\* lines 173-181: every topic of the session by captured_at
Topics(db, session_id) ==
    Map(TopicsOfSession(db, session_id), [t \in Range(db.topics) |-> TimelineTopic(t)])

----------------------------------------------------------------------------
(* SessionSearch.find *)

\* timedelta(days=7) of the week flag
WeekDays == 7

\* `if client:` on an optional string: None and "" are both false
Truthy(o) == o # None /\ Val(o) # <<>>

\* `if days:` on an optional int: None and 0 are both false
TruthyInt(o) == o # None /\ Val(o) # 0

\* f"%{x}%"
Contains(x) == <<"%">> \o x \o <<"%">>

\* f"{date}%"
StartsWith(x) == x \o <<"%">>

\* (now - timedelta(days=n)).isoformat(): one character for the day, one for the
\* time of day, the layout start_time is stored in
IsoDaysAgo(now, n) == <<Digits[now.day - n + 1], Digits[now.tod + 1]>>

Clause(kind, param) == [kind |-> kind, param |-> param]

\* lines 108-151: one clause per criterion that passes its `if`
Conditions(a, now) ==
       (IF Truthy(a.client) THEN <<Clause("client", Contains(Val(a.client)))>> ELSE <<>>)
    \o (IF Truthy(a.tag) THEN <<Clause("tag", Contains(Val(a.tag)))>> ELSE <<>>)
    \o (IF Truthy(a.tool) THEN <<Clause("tool", Contains(Val(a.tool)))>> ELSE <<>>)
    \o (IF Truthy(a.agent) THEN <<Clause("agent", Contains(Val(a.agent)))>> ELSE <<>>)
    \o (IF Truthy(a.project) THEN <<Clause("project", Contains(Val(a.project)))>> ELSE <<>>)
    \o (IF Truthy(a.date) THEN <<Clause("date", StartsWith(Val(a.date)))>> ELSE <<>>)
    \o (IF a.week THEN <<Clause("since", IsoDaysAgo(now, WeekDays))>> ELSE <<>>)
    \o (IF TruthyInt(a.days) THEN <<Clause("since", IsoDaysAgo(now, Val(a.days)))>> ELSE <<>>)
    \o (IF Truthy(a.exclude_project)
        THEN <<Clause("exclude_project", Contains(Val(a.exclude_project)))>> ELSE <<>>)
    \o (IF a.has_compaction # None
        THEN <<Clause("has_compaction", IF Val(a.has_compaction) THEN 1 ELSE 0)>> ELSE <<>>)

\* s.session_id IN (SELECT session_id FROM <table> WHERE <name> LIKE ?)
InNamed(rows, session_id, pattern) ==
    Bool3(\E k \in 1..Len(rows) :
            rows[k].session_id = session_id /\ Like(rows[k].name, pattern) = T)

\* the SQL text of one clause, evaluated on session row s
Holds(c, s, db) ==
    CASE c.kind = "client" -> Like(s.client, c.param)
      [] c.kind = "tag" -> Like(s.tags, c.param)
      [] c.kind = "tool" -> InNamed(db.tools, s.session_id, c.param)
      [] c.kind = "agent" -> InNamed(db.agents, s.session_id, c.param)
      [] c.kind = "project" ->
           Or3(Like(s.project_name, c.param), Like(s.project, c.param))
      [] c.kind = "date" -> Like(Some(s.start_time), c.param)
      [] c.kind = "since" -> Bool3(TextGE(s.start_time, c.param))
      [] c.kind = "exclude_project" ->
           Not3(Or3(Like(s.project_name, c.param), Like(s.project, c.param)))
      [] c.kind = "has_compaction" ->
           IF s.has_compaction = NULL THEN U
           ELSE Bool3(Val(s.has_compaction) = c.param)

\* line 153: " AND ".join(conditions), or 1=1 when there is none
RECURSIVE Where(_, _, _)
Where(conds, s, db) ==
    IF conds = <<>> THEN T
    ELSE And3(Holds(Head(conds), s, db), Where(Tail(conds), s, db))

\* the columns of the SELECT at lines 157-159 that the model follows
Row(s) ==
    [session_id |-> s.session_id, project_name |-> s.project_name,
     client |-> s.client, tags |-> s.tags, start_time |-> s.start_time,
     has_compaction |-> s.has_compaction]

\* lines 166-170 (and 95-99): the row of each selected session gets the topics
\* of the session
Enrich(db, selected) ==
    Map(selected, [s \in Range(db.sessions) |->
                     [row |-> Row(s), topics |-> GetTopics(db, s.session_id)]])

\* mutant: the ORDER BY is left out, rows come in table order
FindRowsUnordered(db, now, a) ==
    LET conds == Conditions(a, now)
        matching == SelectSeq(db.sessions, LAMBDA s : Where(conds, s, db) = T)
    IN Limit(matching, a.limit)

\* lines 156-164: the sessions selected by WHERE ..., ORDER BY s.start_time DESC,
\* LIMIT ?
FindRows(db, now, a) ==
    LET conds == Conditions(a, now)
        matching == SelectSeq(db.sessions, LAMBDA s : Where(conds, s, db) = T)
        ordered == OrderBy(matching, {p \in Pairs(matching) :
                                         TextGE(p[1].start_time, p[2].start_time)})
    IN Limit(ordered, a.limit)

\* lines 102-171
Find(db, now, a) == Enrich(db, FindRows(db, now, a))

\* the defaults of find's parameters
NoCriteria(limit) ==
    [client |-> None, tag |-> None, tool |-> None, agent |-> None, date |-> None,
     week |-> FALSE, days |-> None, project |-> None, exclude_project |-> None,
     has_compaction |-> None, limit |-> limit]

----------------------------------------------------------------------------
(* Store contents and callers of SessionSearch.find *)

\* len of a full session identifier, the test of main's topics command
IdLen == 36

\* the k-th session identifier: three varying characters, then padding
SessionId(k) ==
    [p \in 1..IdLen |->
        IF p = 1 THEN (IF ((k - 1) \div 4) % 2 = 0 THEN "a" ELSE "b")
        ELSE IF p = 2 THEN (IF ((k - 1) \div 2) % 2 = 0 THEN "a" ELSE "b")
        ELSE IF p = 3 THEN (IF (k - 1) % 2 = 0 THEN "a" ELSE "b")
        ELSE "0"]

DbNone == [sessions |-> <<>>, topics |-> <<>>, tools |-> <<>>, agents |-> <<>>]
CallIdle == [pc |-> "idle"]
CliIdle == [pc |-> "idle"]

\* a project / client / tag label: absent, one holding the letter a, one without
Labels == {NULL, Some(<<"b", "a">>), Some(<<"b">>)}

\* datetime.now() of the find calls: day 8, time of day 5
FindClock == {[day |-> 8, tod |-> 5]}

\* start times just before, exactly at and after the cutoff of the week flag
FindStartTimes == {<<"1", "4">>, <<"1", "5">>, <<"8", "0">>}

FindSessions ==
    [session_id : {SessionId(1)}, project_name : Labels, project : Labels,
     client : {NULL, Some(<<"b", "a">>)}, tags : {Some(<<"b", "a">>), Some(<<"b">>)},
     start_time : FindStartTimes, has_compaction : {Some(0), Some(1)}]

Named(session_id, name) == [session_id |-> session_id, name |-> Some(name), use_count |-> 1]

FindStores ==
    [sessions : {<<s>> : s \in FindSessions},
     topics : {<<>>},
     tools : {<<>>, <<Named(SessionId(1), <<"b", "a">>)>>},
     agents : {<<>>, <<Named(SessionId(1), <<"b", "a">>)>>}]

Needle == {None, Some(<<"a">>)}

FindArgs(limit) ==
    [client : {None, Some(<<>>), Some(<<"a">>)}, tag : Needle, tool : Needle,
     agent : Needle, date : {None, Some(<<"1">>)}, week : BOOLEAN,
     days : {None, Some(0), Some(1)}, project : Needle, exclude_project : Needle,
     has_compaction : {None, Some(TRUE), Some(FALSE)}, limit : {limit}]

\* a caller of the module invokes find(...) with any criteria
FindCall ==
    /\ call.pc = "idle"
    /\ \E a \in FindArgs(Len(store.sessions)), now \in FindClock :
         call' = [pc |-> "returned", op |-> "find", args |-> a, now |-> now,
                  result |-> Find(store, now, a)]
    /\ UNCHANGED <<esc, store, cli>>

InitFind ==
    /\ esc = EscIdle
    /\ store \in FindStores
    /\ call = CallIdle
    /\ cli = CliIdle

NextFind == FindCall

SpecFind == InitFind /\ [][NextFind]_vars


InitEscape ==
    /\ esc \in {EscEntry(q, 1, <<>>) : q \in Strings(MaxLen)}
    /\ store = DbNone
    /\ call = CallIdle
    /\ cli = CliIdle

NextEscape ==
    \/ EscEnter
    \/ EscSkipWhitespace
    \/ EscQuotedPhrase
    \/ EscUnterminatedQuote
    \/ EscStartToken
    \/ EscCollectChar
    \/ EscEndToken
    \/ EscLoopExit
    \/ EscReturn
    \/ EscAgain

SpecEscape == InitEscape /\ [][NextEscape]_vars

\* the interpreter runs the function to its return: no step is postponed forever
FairSpecEscape == SpecEscape /\ WF_vars(NextEscape)

----------------------------------------------------------------------------
(* Callers of search, recent, topics and of find without criteria *)

\* most sessions in the store
MaxSessions == 3

\* most topics recorded for one session (more than the cap of _get_topics)
MaxTopics == 11

\* most rows the text index returns for one MATCH
MaxMatches == 2

\* start times on three days, the first two sessions may share one
ApiStartTimes == {<<"1", "0">>, <<"2", "0">>, <<"3", "0">>}

\* the j-th topic row of session k: rows are stored out of capture order and
\* some share a capture time
TopicRow(k, j) ==
    [session_id |-> SessionId(k), topic |-> <<"t", k, j>>,
     captured_at |-> ((j * 7) % 13) \div 2,
     exchange_number |-> IF j % 2 = 0 THEN Some(j) ELSE NULL,
     source |-> IF j % 3 = 0 THEN "manual" ELSE "hook"]

\* topics per session when the store holds any: more than the cap of _get_topics
\* for session 1, none for session 2, then exactly the cap and fewer
TopicCount(k) ==
    IF k = 1 THEN MaxTopics ELSE IF k = 2 THEN 0 ELSE MaxTopics + 2 - k

ApiSession(k, start_time) ==
    [session_id |-> SessionId(k), project_name |-> Some(<<"b", "a">>), project |-> NULL,
     client |-> NULL, tags |-> Some(<<"b">>), start_time |-> start_time,
     has_compaction |-> Some(0)]

\* the topics table: the rows of the sessions one after the other, last session first
RECURSIVE AllTopicRows(_)
AllTopicRows(k) ==
    IF k = 0 THEN <<>>
    ELSE [j \in 1..TopicCount(k) |-> TopicRow(k, j)] \o AllTopicRows(k - 1)

ApiStores ==
    UNION {
        {[sessions |-> [k \in 1..n |-> ApiSession(k, times[k])],
          topics |-> IF withTopics THEN AllTopicRows(n) ELSE <<>>,
          tools |-> <<>>, agents |-> <<>>] :
            times \in [1..n -> ApiStartTimes], withTopics \in BOOLEAN}
        : n \in 0..MaxSessions}

\* datetime.now() is not read without the week and days criteria
ApiClock == [day |-> 8, tod |-> 5]

\* limits and counts a caller may pass: any int
ApiLimits == (-1)..(MaxSessions + 1)

\* recent(n), line 185: find(limit=n)
RecentCall ==
    /\ call.pc = "idle"
    /\ \E n \in ApiLimits :
         call' = [pc |-> "returned", op |-> "recent", limit |-> n,
                  result |-> Find(store, ApiClock, NoCriteria(n))]
    /\ UNCHANGED <<esc, store, cli>>

\* find(limit=n): no criterion supplied
FindAllCall ==
    /\ call.pc = "idle"
    /\ \E n \in ApiLimits :
         call' = [pc |-> "returned", op |-> "find", limit |-> n,
                  result |-> Find(store, ApiClock, NoCriteria(n))]
    /\ UNCHANGED <<esc, store, cli>>

\* topics(session_id) for a stored or an unknown identifier
TopicsCall ==
    /\ call.pc = "idle"
    /\ \E k \in 1..(MaxSessions + 1) :
         call' = [pc |-> "returned", op |-> "topics", session_id |-> SessionId(k),
                  result |-> Topics(store, SessionId(k))]
    /\ UNCHANGED <<esc, store, cli>>

\* a blank query, a one-word query and one with a word, a phrase and an open quote
ApiQueries ==
    {<<>>, <<SPACE>>, <<TAB, SPACE>>, <<LETTER>>,
     <<LETTER, SPACE, QUOTE, LETTER, QUOTE, TAB, QUOTE, LETTER>>}

\* line 93: search(query, limit) first evaluates _escape_fts_query(query)
SearchCall ==
    /\ call.pc = "idle"
    /\ \E q \in ApiQueries, n \in {1, MaxMatches} :
         /\ call' = [pc |-> "escaping", op |-> "search", query |-> q, limit |-> n]
         /\ esc' = EscEntry(q, 0, <<>>)
    /\ UNCHANGED <<store, cli>>

\* the text index rejects an empty MATCH expression (fts5: syntax error near "")
MatchRejected(expr) == expr = <<>>

\* what the text index may return for an expression it accepts: any of the stored
\* sessions, ranked in any order
Ranked(db) ==
    {r \in UNION {[1..m -> 1..Len(db.sessions)] : m \in 0..MaxMatches} :
        \A x, y \in 1..Len(r) : x # y => r[x] # r[y]}

\* lines 83-100: the MATCH statement, then the topics of each row
SearchExecute ==
    /\ call.pc = "escaping"
    /\ esc.pc = "done"
    /\ IF MatchRejected(esc.result)
       THEN call' = [call EXCEPT !.pc = "raised"]
       ELSE \E r \in Ranked(store) :
              call' = [pc |-> "returned", op |-> "search", query |-> call.query,
                       limit |-> call.limit,
                       result |-> Enrich(store,
                                    Limit([k \in 1..Len(r) |-> store.sessions[r[k]]],
                                          call.limit))]
    /\ UNCHANGED <<esc, store, cli>>

InitApi ==
    /\ esc = EscIdle
    /\ store \in ApiStores
    /\ call = CallIdle
    /\ cli = CliIdle

NextApi ==
    \/ RecentCall
    \/ FindAllCall
    \/ TopicsCall
    \/ SearchCall
    \/ EscEnter
    \/ EscSkipWhitespace
    \/ EscQuotedPhrase
    \/ EscUnterminatedQuote
    \/ EscStartToken
    \/ EscCollectChar
    \/ EscEndToken
    \/ EscLoopExit
    \/ EscReturn
    \/ SearchExecute

SpecApi == InitApi /\ [][NextApi]_vars

----------------------------------------------------------------------------
(* SessionSearch.tools_usage *)

RECURSIVE SumUses(_)
SumUses(rows) == IF rows = <<>> THEN 0 ELSE Head(rows).use_count + SumUses(Tail(rows))

\* the distinct tool names in order of first appearance
RECURSIVE ToolNames(_)
ToolNames(rows) ==
    IF rows = <<>> THEN <<>>
    ELSE LET before == ToolNames(SubSeq(rows, 1, Len(rows) - 1))
             name == rows[Len(rows)].name
         IN IF \E k \in 1..Len(before) : before[k] = name THEN before
            ELSE Append(before, name)

ToolTotal(db, name) ==
    LET uses == SelectSeq(db.tools, LAMBDA t : t.name = name)
    IN [tool_name |-> name, total |-> SumUses(uses),
        session_count |-> Cardinality({uses[k].session_id : k \in 1..Len(uses)})]

\* lines 203-224: the sessions using a named tool, or the totals per tool
ToolsUsage(db, tool_name, limit) ==
    IF Truthy(tool_name)
    THEN LET joined == SelectSeq(db.tools, LAMBDA t :
                          /\ \E k \in 1..Len(db.sessions) :
                                db.sessions[k].session_id = t.session_id
                          /\ Like(t.name, Contains(Val(tool_name))) = T)
         IN Limit(OrderBy(joined, {p \in Pairs(joined) :
                                     p[1].use_count >= p[2].use_count}), limit)
    ELSE LET names == ToolNames(db.tools)
             totals == Map(names, [name \in {db.tools[k].name : k \in 1..Len(db.tools)}
                                     |-> ToolTotal(db, name)])
         IN Limit(OrderBy(totals, {p \in Pairs(totals) : p[1].total >= p[2].total}),
                  limit)

----------------------------------------------------------------------------
(* main(): one command per run, the store connection opened before the try *)
(* block and closed in its finally                                          *)

\* default of -n / --limit and of tools_usage's limit
DefaultLimit == 20

\* default of recent's n
DefaultRecent == 10

\* the session identifiers a caller may type: prefixes and full identifiers
CliSessionArgs ==
    UNION {[1..m -> {"a", "b"}] : m \in 0..3}
      \cup {SessionId(k) : k \in 1..(MaxSessions + 1)}

\* sys.argv after parsing, with what the environment provides (is the indexer
\* module importable for stats)
CliInvocations ==
    {[command |-> "none"]}
      \cup {[command |-> "search", query |-> q, limit |-> DefaultLimit] : q \in ApiQueries}
      \cup {[command |-> "find", client |-> c, week |-> w, compacted |-> h, limit |-> n] :
              c \in Needle, w \in BOOLEAN, h \in BOOLEAN, n \in {-1, 1, DefaultLimit}}
      \cup {[command |-> "topics", session_id |-> sid] : sid \in CliSessionArgs}
      \cup {[command |-> "recent", n |-> n] : n \in {-1, 0, 2, DefaultRecent}}
      \cup {[command |-> "stats", indexer |-> b] : b \in BOOLEAN}
      \cup {[command |-> "tools", tool_name |-> t] : t \in Needle}

\* the store file: readable, or one whose statements fail, or one that cannot be opened
StoreHealth == {"ok", "corrupt", "unopenable"}

\* the stores main runs against: sessions starting on three days, not stored in
\* order of start time, with or without topics and tool records
CliStores ==
    UNION {
        {[sessions |-> [k \in 1..n |->
                          ApiSession(k, <<Digits[((k + 1) % 3) + 2], "0">>)],
          topics |-> IF filled THEN AllTopicRows(n) ELSE <<>>,
          tools |-> IF filled
                    THEN [k \in 1..n |->
                            [session_id |-> SessionId(k),
                             name |-> Some(IF k = 1 THEN <<"b">> ELSE <<"b", "a">>),
                             use_count |-> k]]
                    ELSE <<>>,
          agents |-> <<>>,
          health |-> h] : filled \in BOOLEAN, h \in StoreHealth}
        : n \in 0..MaxSessions}

CliStart(inv) ==
    [pc |-> "start", inv |-> inv, conn |-> "none", log |-> <<>>,
     outcome |-> "running", output |-> [kind |-> "nothing"]]

\* the try block is left: by falling off its end or a return, or by an exception
Leave(c, outcome, output) ==
    [c EXCEPT !.pc = "finally", !.outcome = outcome, !.output = output]

\* conn.execute(...) is issued `statements` times
Executed(c, statements) ==
    [c EXCEPT !.log = @ \o [k \in 1..statements |-> "execute"]]

\* lines 330-332: no command, print the help and exit before any connection
MainNoCommand ==
    /\ cli.pc = "start"
    /\ cli.inv.command = "none"
    /\ cli' = [cli EXCEPT !.pc = "exit", !.outcome = "returned",
                          !.output = [kind |-> "help"]]
    /\ UNCHANGED <<esc, store, call>>

\* lines 334-337 and 73-75: the connection is opened, then the try block entered;
\* a store that cannot be opened raises before there is a connection
MainConnect ==
    /\ cli.pc = "start"
    /\ cli.inv.command # "none"
    /\ IF store.health = "unopenable"
       THEN cli' = [cli EXCEPT !.pc = "exit", !.outcome = "raised"]
       ELSE cli' = [cli EXCEPT !.pc = "try", !.conn = "open",
                               !.log = Append(@, "connect")]
    /\ UNCHANGED <<esc, store, call>>

\* lines 340-341 with 93: search first evaluates _escape_fts_query(args.query)
MainSearch ==
    /\ cli.pc = "try"
    /\ cli.inv.command = "search"
    /\ cli' = [cli EXCEPT !.pc = "escaping"]
    /\ esc' = EscEntry(cli.inv.query, 0, <<>>)
    /\ UNCHANGED <<store, call>>

\* lines 83-100 and 341-376: the MATCH statement raises, or its rows are printed
MainSearchExecute ==
    /\ cli.pc = "escaping"
    /\ esc.pc = "done"
    /\ IF store.health = "corrupt" \/ MatchRejected(esc.result)
       THEN cli' = Leave(Executed(cli, 1), "raised", [kind |-> "error"])
       ELSE \E r \in Ranked(store) :
              LET rows == Limit([k \in 1..Len(r) |-> store.sessions[r[k]]],
                                cli.inv.limit)
                  results == Enrich(store, rows)
              IN cli' = Leave(Executed(cli, 1 + Len(rows)), "returned",
                              IF results = <<>> THEN [kind |-> "no_results"]
                              ELSE [kind |-> "results", results |-> results])
    /\ UNCHANGED <<esc, store, call>>

\* datetime.now() of a run of main
CliClock == [day |-> 8, tod |-> 5]

\* lines 378-392: find with the criteria the command line offers
MainFind ==
    /\ cli.pc = "try"
    /\ cli.inv.command = "find"
    /\ IF store.health = "corrupt"
       THEN cli' = Leave(Executed(cli, 1), "raised", [kind |-> "error"])
       ELSE LET a == [NoCriteria(cli.inv.limit) EXCEPT
                        !.client = cli.inv.client, !.week = cli.inv.week,
                        !.has_compaction = IF cli.inv.compacted THEN Some(TRUE) ELSE None]
                results == Find(store, CliClock, a)
            IN cli' = Leave(Executed(cli, 1 + Len(results)), "returned",
                            IF results = <<>> THEN [kind |-> "no_results"]
                            ELSE [kind |-> "results", results |-> results])
    /\ UNCHANGED <<esc, store, call>>

\* f"{sid}%" of the prefix lookup
PrefixPattern(sid) == sid \o <<"%">>

\* the rows of SELECT session_id FROM sessions WHERE session_id LIKE ?
PrefixMatches(db, sid) ==
    {k \in 1..Len(db.sessions) :
        Like(Some(db.sessions[k].session_id), PrefixPattern(sid)) = T}

\* lines 407-436: the timeline of session sid after `statements` earlier statements
Timeline(c, db, sid, statements) ==
    LET topics == Topics(db, sid)
    IN IF topics = <<>>
       THEN Leave(Executed(c, statements + 1), "returned",
                  [kind |-> "no_topics", session_id |-> sid])
       ELSE Leave(Executed(c, statements + 2), "returned",
                  [kind |-> "timeline", session_id |-> sid, topics |-> topics])

\* lines 394-436: a short identifier is looked up by prefix and fetchone() takes
\* one matching row, whichever the store yields first
MainTopics ==
    /\ cli.pc = "try"
    /\ cli.inv.command = "topics"
    /\ IF store.health = "corrupt"
       THEN cli' = Leave(Executed(cli, 1), "raised", [kind |-> "error"])
       ELSE IF Len(cli.inv.session_id) < IdLen
       THEN IF PrefixMatches(store, cli.inv.session_id) = {}
            THEN cli' = Leave(Executed(cli, 1), "returned",
                              [kind |-> "no_session", session_id |-> cli.inv.session_id])
            ELSE \E k \in PrefixMatches(store, cli.inv.session_id) :
                   cli' = Timeline(cli, store, store.sessions[k].session_id, 1)
       ELSE cli' = Timeline(cli, store, cli.inv.session_id, 0)
    /\ UNCHANGED <<esc, store, call>>

\* lines 438-443: recent(args.n), printed even when empty
MainRecent ==
    /\ cli.pc = "try"
    /\ cli.inv.command = "recent"
    /\ IF store.health = "corrupt"
       THEN cli' = Leave(Executed(cli, 1), "raised", [kind |-> "error"])
       ELSE LET results == Find(store, CliClock, NoCriteria(cli.inv.n))
            IN cli' = Leave(Executed(cli, 1 + Len(results)), "returned",
                            [kind |-> "results", results |-> results])
    /\ UNCHANGED <<esc, store, call>>

\* lines 445-466 and 187-201: without the indexer module stats() issues no
\* statement and zeros are printed; with it get_stats() reads the store
MainStats ==
    /\ cli.pc = "try"
    /\ cli.inv.command = "stats"
    /\ IF ~cli.inv.indexer
       THEN cli' = Leave(cli, "returned", [kind |-> "stats", available |-> FALSE])
       ELSE IF store.health = "corrupt"
       THEN cli' = Leave(Executed(cli, 1), "raised", [kind |-> "error"])
       ELSE cli' = Leave(Executed(cli, 1), "returned",
                         [kind |-> "stats", available |-> TRUE,
                          total_sessions |-> Len(store.sessions),
                          total_topics |-> Len(store.topics)])
    /\ UNCHANGED <<esc, store, call>>

\* lines 468-479: tools_usage(args.tool_name)
MainTools ==
    /\ cli.pc = "try"
    /\ cli.inv.command = "tools"
    /\ IF store.health = "corrupt"
       THEN cli' = Leave(Executed(cli, 1), "raised", [kind |-> "error"])
       ELSE cli' = Leave(Executed(cli, 1), "returned",
                         [kind |-> "tools",
                          rows |-> ToolsUsage(store, cli.inv.tool_name, DefaultLimit)])
    /\ UNCHANGED <<esc, store, call>>

\* mutant: close() follows the try block without a finally, so an exception
\* leaves main before it
MainCloseAfterTry ==
    /\ cli.pc = "finally"
    /\ IF cli.outcome = "raised"
       THEN cli' = [cli EXCEPT !.pc = "exit"]
       ELSE cli' = [cli EXCEPT !.pc = "exit", !.conn = "closed",
                               !.log = Append(@, "close")]
    /\ UNCHANGED <<esc, store, call>>

\* lines 481-482 and 77-79: finally: searcher.close()
MainFinally ==
    /\ cli.pc = "finally"
    /\ cli' = [cli EXCEPT !.pc = "exit",
                          !.conn = IF @ = "open" THEN "closed" ELSE @,
                          !.log = IF cli.conn = "open" THEN Append(@, "close") ELSE @]
    /\ UNCHANGED <<esc, store, call>>

Init ==
    /\ esc = EscIdle
    /\ store \in CliStores
    /\ call = CallIdle
    /\ cli \in {CliStart(inv) : inv \in CliInvocations}

Next ==
    \/ MainNoCommand
    \/ MainConnect
    \/ MainSearch
    \/ EscEnter
    \/ EscSkipWhitespace
    \/ EscQuotedPhrase
    \/ EscUnterminatedQuote
    \/ EscStartToken
    \/ EscCollectChar
    \/ EscEndToken
    \/ EscLoopExit
    \/ EscReturn
    \/ MainSearchExecute
    \/ MainFind
    \/ MainTopics
    \/ MainRecent
    \/ MainStats
    \/ MainTools
    \/ MainFinally

Spec == Init /\ [][Next]_vars

\* main runs in one thread to its end: a step that can be taken is taken
FairSpec == Spec /\ WF_vars(Next)

----------------------------------------------------------------------------
(* Properties of _escape_fts_query *)

QuotePositions(s) == {k \in 1..Len(s) : s[k] = QUOTE}

\* the quotes of s before position k
QuotesBefore(s, k) == Cardinality({q \in QuotePositions(s) : q < k})

\* s is one or more tokens "..." with no quote inside, joined by exactly one space
IsQuotedTokens(s) ==
    /\ Len(s) >= 2
    /\ s[1] = QUOTE
    /\ s[Len(s)] = QUOTE
    /\ Cardinality(QuotePositions(s)) % 2 = 0
    /\ \A k \in 1..Len(s) :
         \/ s[k] = QUOTE /\ QuotesBefore(s, k) % 2 = 0            \* opens a token
         \/ s[k] = QUOTE /\ QuotesBefore(s, k) % 2 = 1            \* closes a token
              /\ (k < Len(s) => s[k + 1] = SPACE /\ s[k + 2] = QUOTE)
         \/ s[k] # QUOTE /\ QuotesBefore(s, k) % 2 = 1            \* inside a token
         \/ s[k] = SPACE /\ QuotesBefore(s, k) % 2 = 0            \* the one separator
              /\ s[k - 1] = QUOTE /\ s[k + 1] = QUOTE

\* C3: whenever _escape_fts_query has returned, its output is empty or a sequence
\* of tokens joined by exactly one space, each token starting and ending with a
\* double quote and holding none in between (so the quotes are even in number and
\* no input character stands outside a token).
C3_OutputIsQuotedTokens ==
    esc.pc = "done" => (esc.result = <<>> \/ IsQuotedTokens(esc.result))

\* a first-pass return with two tokens, one of them a phrase the caller quoted
C3_Witness ==
    /\ esc.pc = "done"
    /\ esc.pass = 1
    /\ Len(esc.tokens) = 2
    /\ QuotePositions(esc.query) # {}
    /\ \E k \in 1..Len(esc.result) : esc.result[k] = TAB

\* s is a double-quoted phrase: quote, text without quotes, quote
IsQuotedPhrase(s) ==
    Len(s) >= 2 /\ QuotePositions(s) = {1, Len(s)}

\* C4: _escape_fts_query is idempotent: sanitizing its own output returns that
\* output again, and an input that already is a double-quoted phrase is returned
\* unchanged rather than wrapped in a second pair of quotes.
C4_Idempotent ==
    /\ (esc.pc = "done" /\ esc.pass = 2) => esc.result = esc.first
    /\ (esc.pc = "done" /\ IsQuotedPhrase(esc.query)) => esc.result = esc.query

\* the second pass over the phrase "a a" has returned
C4_Witness ==
    /\ esc.pc = "done"
    /\ esc.pass = 2
    /\ esc.query = <<QUOTE, LETTER, SPACE, LETTER, QUOTE>>
    /\ esc.result = esc.query

\* the tokenization rule stated for the sanitizer: whitespace separates words, a
\* quote opens a phrase that runs to the next quote, or to the end of the text
RECURSIVE UsualTokens(_)
UsualTokens(s) ==
    IF s = <<>> THEN <<>>
    ELSE IF IsSpace(s[1]) THEN UsualTokens(Tail(s))
    ELSE IF s[1] = QUOTE
         THEN LET closing == {k \in 2..Len(s) : s[k] = QUOTE}
              IN IF closing = {} THEN <<Quoted(Tail(s))>>
                 ELSE LET c == CHOOSE k \in closing : \A h \in closing : k <= h
                      IN <<SubSeq(s, 1, c)>> \o UsualTokens(SubSeq(s, c + 1, Len(s)))
    ELSE LET stops == {k \in 1..Len(s) : IsSpace(s[k]) \/ s[k] = QUOTE}
             e == IF stops = {} THEN Len(s) + 1
                  ELSE CHOOSE k \in stops : \A h \in stops : k <= h
         IN <<Quoted(SubSeq(s, 1, e - 1))>> \o UsualTokens(SubSeq(s, e, Len(s)))

\* the trimmed text t holds a quote that is never closed: quotes pair up from the
\* left, so that is the last one of an odd number
HasUnclosedQuote(t) == Cardinality(QuotePositions(t)) % 2 = 1

LastQuote(t) == CHOOSE k \in QuotePositions(t) : \A h \in QuotePositions(t) : k >= h

\* what the sanitizer owes for its input q once it has returned
ReturnedAsOwed(q, tokens, result) ==
    LET t == Strip(q)
    IN /\ result = Join(tokens)
       /\ HasUnclosedQuote(t) =>
            tokens = UsualTokens(SubSeq(t, 1, LastQuote(t) - 1))
                       \o <<Quoted(SubSeq(t, LastQuote(t) + 1, Len(t)))>>

----------------------------------------------------------------------------
(* Properties of SessionSearch.find with criteria *)

ResultIds(result) == {result[k].row.session_id : k \in 1..Len(result)}

StoredIds == {store.sessions[k].session_id : k \in 1..Len(store.sessions)}

\* find was called with the one criterion exclude_project = X, X not empty
IsExcludeOnlyCall ==
    /\ call.pc = "returned"
    /\ call.op = "find"
    /\ call.args.exclude_project # None
    /\ Val(call.args.exclude_project) # <<>>
    /\ call.args.limit >= Len(store.sessions)
    /\ call.args = [NoCriteria(call.args.limit) EXCEPT
                      !.exclude_project = call.args.exclude_project]

\* C1: with no other criteria and a limit that covers the store, find(project=X)
\* and find(exclude_project=X) partition the sessions: each session, also one
\* whose project_name or project is NULL, is returned by exactly one of the two.
C1_ProjectPartition ==
    IsExcludeOnlyCall =>
        LET included == Find(store, call.now,
                             [NoCriteria(call.args.limit) EXCEPT
                                !.project = call.args.exclude_project])
        IN \A id \in StoredIds :
             (id \in ResultIds(call.result)) # (id \in ResultIds(included))

\* label (not NULL) contains x, letter case ignored
HasSubstring(label, x) ==
    \E from \in 1..(Len(label) + 1) :
        /\ from + Len(x) - 1 <= Len(label)
        /\ \A k \in 1..Len(x) : Fold(label[from + k - 1]) = Fold(x[k])

LabelContains(column, x) == column # NULL /\ HasSubstring(Val(column), x)

\* a timestamp as a number: its day, then its time of day
Instant(day, tod) == day * 10 + tod
StartInstant(s) == Instant(Code(s.start_time[1]) - 1, Code(s.start_time[2]) - 1)

\* session s satisfies every criterion the caller supplied in a
Satisfies(s, a, now) ==
    /\ a.client # None => LabelContains(s.client, Val(a.client))
    /\ a.tag # None => LabelContains(s.tags, Val(a.tag))
    /\ a.tool # None =>
         \E k \in 1..Len(store.tools) :
            /\ store.tools[k].session_id = s.session_id
            /\ LabelContains(store.tools[k].name, Val(a.tool))
    /\ a.agent # None =>
         \E k \in 1..Len(store.agents) :
            /\ store.agents[k].session_id = s.session_id
            /\ LabelContains(store.agents[k].name, Val(a.agent))
    /\ a.date # None =>
         /\ Len(Val(a.date)) <= Len(s.start_time)
         /\ SubSeq(s.start_time, 1, Len(Val(a.date))) = Val(a.date)
    /\ a.week => StartInstant(s) >= Instant(now.day - WeekDays, now.tod)
    /\ a.days # None => StartInstant(s) >= Instant(now.day - Val(a.days), now.tod)
    /\ a.project # None =>
         (LabelContains(s.project_name, Val(a.project))
            \/ LabelContains(s.project, Val(a.project)))
    /\ a.exclude_project # None =>
         ~(LabelContains(s.project_name, Val(a.exclude_project))
             \/ LabelContains(s.project, Val(a.exclude_project)))
    /\ a.has_compaction # None =>
         s.has_compaction = Some(IF Val(a.has_compaction) THEN 1 ELSE 0)

\* C7: for every combination of criteria, a session is eligible for find's result
\* exactly if it satisfies each criterion the caller supplied (clauses joined by
\* AND), where week means start_time >= now - 7 days, days = N means
\* start_time >= now - N days for whatever N was passed, and has_compaction =
\* false is a criterion of its own.
C7_EligibleIffEveryCriterion ==
    (call.pc = "returned" /\ call.op = "find"
       /\ call.args.limit >= Len(store.sessions)) =>
        \A k \in 1..Len(store.sessions) :
            (store.sessions[k].session_id \in ResultIds(call.result))
              <=> Satisfies(store.sessions[k], call.args, call.now)

----------------------------------------------------------------------------
(* Properties of search, recent, topics and find without criteria *)

\* C2: for an empty or all-whitespace query _escape_fts_query returns the empty
\* string, and search(query, limit) takes that as "no text constraint": it
\* completes with a normal result value and does not end in a store / query error.
C2_BlankQueryIsNoConstraint ==
    (call.pc \in {"returned", "raised"} /\ call.op = "search"
       /\ Strip(call.query) = <<>>) =>
        (esc.result = <<>> /\ call.pc = "returned")

Min(x, y) == IF x <= y THEN x ELSE y

\* the rows of the topics table that belong to the session
TopicRowsOf(session_id) ==
    {r \in 1..Len(store.topics) : store.topics[r].session_id = session_id}

\* list holds the first `wanted` topic rows of the session by capture time
\* ascending (all of them when fewer exist), each as in reduced
IsTopicsByCaptureTime(list, session_id, wanted, reduced) ==
    LET rows == TopicRowsOf(session_id)
        RowAt(p) == CHOOSE r \in rows : store.topics[r].topic = list[p].topic
        taken == {RowAt(p) : p \in 1..Len(list)}
    IN /\ Len(list) = Min(wanted, Cardinality(rows))
       /\ \A p \in 1..Len(list) : \E r \in rows : reduced[r] = list[p]
       /\ \A p, q \in 1..Len(list) : p < q =>
            /\ list[p].topic # list[q].topic
            /\ store.topics[RowAt(p)].captured_at <= store.topics[RowAt(q)].captured_at
       /\ \A r \in rows \ taken : \A p \in 1..Len(list) :
            store.topics[RowAt(p)].captured_at <= store.topics[r].captured_at

\* result holds the `wanted` newest sessions, newest first, each with its topics
IsNewestFirst(result, wanted) ==
    /\ Len(result) = Min(wanted, Len(store.sessions))
    /\ \A p \in 1..Len(result) :
         /\ \E k \in 1..Len(store.sessions) :
              /\ result[p].row.session_id = store.sessions[k].session_id
              /\ result[p].row.start_time = store.sessions[k].start_time
         /\ Len(result[p].topics) =
              Min(TopicCap, Cardinality(TopicRowsOf(result[p].row.session_id)))
         /\ \A t \in 1..Len(result[p].topics) :
              \E r \in TopicRowsOf(result[p].row.session_id) :
                 store.topics[r].topic = result[p].topics[t].topic
    /\ \A p, q \in 1..Len(result) : p < q =>
         /\ result[p].row.session_id # result[q].row.session_id
         /\ StartInstant(result[p].row) >= StartInstant(result[q].row)
    /\ \A k \in 1..Len(store.sessions) :
         store.sessions[k].session_id \notin ResultIds(result) =>
            \A p \in 1..Len(result) :
               StartInstant(result[p].row) >= StartInstant(store.sessions[k])

\* find was called without criteria, directly or through recent(n)
IsZeroCriteriaReturn ==
    call.pc = "returned" /\ call.op \in {"recent", "find"}

\* C6 as stated: find with zero criteria and recent(n) return, for any store and
\* any requested limit, exactly the first `limit` sessions of the descending
\* start-time order, never more rows than the limit (so none for a limit below
\* zero), each with its topics, and an empty list for an empty store.
C6_FirstLimitForAnyLimit ==
    IsZeroCriteriaReturn =>
        IsNewestFirst(call.result, IF call.limit < 0 THEN 0 ELSE call.limit)

\* C6 amended: the same for every limit that is not negative; a negative limit
\* reaches the store unchanged and caps nothing, so every session is returned
\* (still newest first, each with its topics).
C6_FirstLimitOfDescending ==
    IsZeroCriteriaReturn =>
        IsNewestFirst(call.result,
                      IF call.limit < 0 THEN Len(store.sessions) ELSE call.limit)

\* recent(2) on three sessions of three distinct days, stored oldest first, the
\* newest of them with topics
C6_Witness ==
    /\ call.pc = "returned"
    /\ call.op = "recent"
    /\ call.limit = 2
    /\ Len(store.sessions) = 3
    /\ Cardinality({store.sessions[k].start_time : k \in 1..3}) = 3
    /\ StartInstant(store.sessions[1]) < StartInstant(store.sessions[2])
    /\ Len(call.result) = 2
    /\ call.result[1].topics # <<>>

\* C8: every row that search or find (or recent) returns carries at most 10
\* topics: the first 10 of its session by capture time ascending, reduced to
\* topic text and source; topics(session_id) returns every topic of the session
\* in capture-time order, uncapped.
C8_TopicsCappedOnRowsOnly ==
    /\ (call.pc = "returned" /\ call.op \in {"search", "find", "recent"}) =>
         \A p \in 1..Len(call.result) :
            /\ Len(call.result[p].topics) <= 10
            /\ IsTopicsByCaptureTime(call.result[p].topics,
                                     call.result[p].row.session_id, 10,
                                     [r \in 1..Len(store.topics) |->
                                        [topic |-> store.topics[r].topic,
                                         source |-> store.topics[r].source]])
    /\ (call.pc = "returned" /\ call.op = "topics") =>
         /\ Len(call.result) = Cardinality(TopicRowsOf(call.session_id))
         /\ IsTopicsByCaptureTime(call.result, call.session_id,
                                  Len(call.result),
                                  [r \in 1..Len(store.topics) |->
                                     [topic |-> store.topics[r].topic,
                                      captured_at |-> store.topics[r].captured_at,
                                      exchange_number |-> store.topics[r].exchange_number,
                                      source |-> store.topics[r].source]])

\* search returned a row of a session with more topics than the cap
C8_Witness ==
    /\ call.pc = "returned"
    /\ call.op = "search"
    /\ Len(call.result) >= 1
    /\ Cardinality(TopicRowsOf(call.result[1].row.session_id)) > 10
    /\ Len(call.result[1].topics) = 10

----------------------------------------------------------------------------
(* Properties of main() *)

\* C9: the connection opened by searcher.connect() is released on every exit
\* path of main: whatever the command and whether it ends normally, returns early
\* or raises, main does not exit with the connection open, close is eventually
\* executed once the connection is open, and no statement follows the close.
C9_ConnectionReleased ==
    /\ []((cli.pc = "exit" /\ \E k \in 1..Len(cli.log) : cli.log[k] = "connect") =>
            (cli.conn = "closed" /\ cli.log[Len(cli.log)] = "close"))
    /\ [](\A j, k \in 1..Len(cli.log) :
            (j < k /\ cli.log[j] = "close") => cli.log[k] # "execute")
    /\ (cli.conn = "open") ~> (cli.conn = "closed")

\* main has exited after a search whose statement raised on a readable store, the
\* connection closed behind it
C9_Witness ==
    /\ cli.pc = "exit"
    /\ cli.inv.command = "search"
    /\ store.health = "ok"
    /\ cli.outcome = "raised"
    /\ cli.conn = "closed"
    /\ cli.log = <<"connect", "execute", "close">>

\* identifier id starts with the characters typed
StartsWithTyped(id, typed) ==
    Len(typed) <= Len(id) /\ SubSeq(id, 1, Len(typed)) = typed

\* C10: the topics command resolves a shortened identifier to exactly one full
\* identifier: with one stored identifier starting with it, that session's
\* timeline is shown; with none, a no-match outcome is reported without an
\* exception; with several, the ambiguity is reported instead of one of the
\* candidates being used.
C10_PrefixResolvesToOne ==
    (cli.pc = "exit" /\ cli.inv.command = "topics" /\ store.health = "ok"
       /\ Len(cli.inv.session_id) < IdLen) =>
        LET candidates ==
                {k \in 1..Len(store.sessions) :
                    StartsWithTyped(store.sessions[k].session_id, cli.inv.session_id)}
        IN /\ cli.outcome = "returned"
           /\ candidates = {} => cli.output.kind = "no_session"
           /\ Cardinality(candidates) = 1 =>
                /\ cli.output.kind \in {"timeline", "no_topics"}
                /\ \A k \in candidates :
                     cli.output.session_id = store.sessions[k].session_id
           /\ Cardinality(candidates) > 1 => cli.output.kind = "ambiguous"

====
